---- MODULE Spec2Model ----
(***************************************************************************)
(* Model of PDB_processor.py: the three in-place removal passes over a     *)
(* Bio.PDB structure (model -> chain -> residue), the residue partitioner  *)
(* (get_residues / split_residues), process_pdb and the command line       *)
(* driver main / validate_args.                                            *)
(*                                                                         *)
(* A structure is a sequence of models, a model a sequence of chains, a    *)
(* chain a record [id, child_list], a residue a record [id, resname].      *)
(* The input file is a sequence of records; one "RES" record stands for    *)
(* the atom lines of one residue, a "MODEL" record opens a new model.      *)
(***************************************************************************)
EXTENDS Integers, Sequences, FiniteSets, TLC

\* ---------------------------------------------------------------- bounds
MaxRecords == 3          \* longest input file, in records
MaxPasses  == 2          \* longest sequence of passes applied by a library caller

\* ------------------------------------------------------------- universes
ResNames == {"ALA", "HOH", "PO4"}
ChainIds == {"A", "B"}
InputPaths == {"in.pdb", "absent.pdb", ""}

\* PDB_processor.py:24-28
aal_prot ==
    {"ALA", "ARG", "ASN", "ASP", "CYS", "GLN", "GLU", "GLY", "HIS", "ILE",
     "LEU", "LYS", "MET", "PHE", "PRO", "SER", "THR", "TRP", "TYR", "VAL",
     "ASH", "GLH", "HIE", "HID", "HIP", "LYN", "CYX", "CYM", "TYM"}

VARIABLES
    file,            \* content of the file "in.pdb": a sequence of records
    args,            \* resolved configuration (argparse namespace / process_pdb parameters)
    pc,              \* position of the run
    structure,       \* the Bio.PDB structure, mutated in place
    saved,           \* what PDBIO.save wrote to the output file
    stdout,          \* messages printed, in order
    exit_status,     \* exit status of the script, -1 while it runs
    exc,             \* the exception in flight, "none" if none
    trace,           \* passes a library caller has applied, in order
    residues,        \* result of get_residues
    chains,          \* first result of split_residues (protein chains)
    hetero_chains    \* second result of split_residues

vars == <<file, args, pc, structure, saved, stdout, exit_status, exc,
          trace, residues, chains, hetero_chains>>

\* ------------------------------------------------------------ the parser
Records ==
    [kind : {"RES"}, chain : ChainIds, resname : ResNames]
        \cup {[kind |-> "MODEL", chain |-> "", resname |-> ""]}

Files == UNION {[1..n -> Records] : n \in 0..MaxRecords}

\* StructureBuilder.init_chain / init_residue: a residue goes to the chain of
\* its chain id in the current model; the chain is created on first use.
init_residue(models, rec) ==
    LET ms  == IF models = <<>> THEN << <<>> >> ELSE models
        k   == Len(ms)
        m   == ms[k]
        idx == {c \in 1..Len(m) : m[c].id = rec.chain}
    IN  IF idx = {}
        THEN [ms EXCEPT ![k] = Append(m,
                 [id |-> rec.chain,
                  child_list |-> <<[id |-> 1, resname |-> rec.resname]>>])]
        ELSE LET c == CHOOSE x \in idx : TRUE
             IN  [ms EXCEPT ![k][c].child_list =
                     Append(@, [id |-> Len(@) + 1, resname |-> rec.resname])]

RECURSIVE get_structure_from(_, _, _)
get_structure_from(f, i, models) ==
    IF i > Len(f) THEN models
    ELSE get_structure_from(f, i + 1,
            IF f[i].kind = "MODEL" THEN Append(models, <<>>)
            ELSE init_residue(models, f[i]))

\* parser.get_structure("protein", input_file)
get_structure(f) == get_structure_from(f, 1, <<>>)

\* ---------------------------------------------------- the removal passes
\* a removal that fills the hole with the last child instead of closing it
detach_child_swap(chain, rid) ==
    LET l == chain.child_list
        n == Len(l)
        p == CHOOSE i \in 1..n : l[i].id = rid
    IN  [chain EXCEPT !.child_list =
            [i \in 1..(n - 1) |-> IF i = p THEN l[n] ELSE l[i]]]

\* Entity.detach_child(id): drop the child with this id, keep the others in order.
detach_child(chain, rid) ==
    LET keep(r) == r.id # rid
    IN  [chain EXCEPT !.child_list = SelectSeq(@, keep)]

\* for residue in list(chain): if residue.get_resname() == "HOH": detach
RECURSIVE remove_water_chain(_, _, _)
remove_water_chain(chain, snapshot, i) ==
    IF i > Len(snapshot) THEN chain
    ELSE remove_water_chain(
            IF snapshot[i].resname = "HOH"
            THEN detach_child(chain, snapshot[i].id) ELSE chain,
            snapshot, i + 1)

\* the same loop over the live child list instead of a snapshot
RECURSIVE remove_water_chain_live(_, _)
remove_water_chain_live(chain, i) ==
    IF i > Len(chain.child_list) THEN chain
    ELSE remove_water_chain_live(
            IF chain.child_list[i].resname = "HOH"
            THEN detach_child(chain, chain.child_list[i].id) ELSE chain,
            i + 1)

remove_water_live(s) ==
    [m \in 1..Len(s) |->
        [c \in 1..Len(s[m]) |-> remove_water_chain_live(s[m][c], 1)]]

\* the same pass, dropping a chain it has emptied
remove_water_prune(s) ==
    [m \in 1..Len(s) |->
        LET cleaned == [c \in 1..Len(s[m]) |->
                           remove_water_chain(s[m][c], s[m][c].child_list, 1)]
            nonempty(ch) == ch.child_list # <<>>
        IN  SelectSeq(cleaned, nonempty)]

remove_water(s) ==
    [m \in 1..Len(s) |->
        [c \in 1..Len(s[m]) |->
            remove_water_chain(s[m][c], s[m][c].child_list, 1)]]

RECURSIVE keep_only_protein_chain(_, _, _)
keep_only_protein_chain(chain, snapshot, i) ==
    IF i > Len(snapshot) THEN chain
    ELSE keep_only_protein_chain(
            IF snapshot[i].resname \notin aal_prot
            THEN detach_child(chain, snapshot[i].id) ELSE chain,
            snapshot, i + 1)

RECURSIVE keep_only_protein_chain_live(_, _)
keep_only_protein_chain_live(chain, i) ==
    IF i > Len(chain.child_list) THEN chain
    ELSE keep_only_protein_chain_live(
            IF chain.child_list[i].resname \notin aal_prot
            THEN detach_child(chain, chain.child_list[i].id) ELSE chain,
            i + 1)

keep_only_protein_live(s) ==
    [m \in 1..Len(s) |->
        [c \in 1..Len(s[m]) |-> keep_only_protein_chain_live(s[m][c], 1)]]

keep_only_protein(s) ==
    [m \in 1..Len(s) |->
        [c \in 1..Len(s[m]) |->
            keep_only_protein_chain(s[m][c], s[m][c].child_list, 1)]]

RECURSIVE remove_heteroatoms_chain(_, _, _, _)
remove_heteroatoms_chain(chain, snapshot, i, hetatm_set) ==
    IF i > Len(snapshot) THEN chain
    ELSE remove_heteroatoms_chain(
            IF snapshot[i].resname \in hetatm_set
            THEN detach_child(chain, snapshot[i].id) ELSE chain,
            snapshot, i + 1, hetatm_set)

RECURSIVE remove_heteroatoms_chain_live(_, _, _)
remove_heteroatoms_chain_live(chain, i, hetatm_set) ==
    IF i > Len(chain.child_list) THEN chain
    ELSE remove_heteroatoms_chain_live(
            IF chain.child_list[i].resname \in hetatm_set
            THEN detach_child(chain, chain.child_list[i].id) ELSE chain,
            i + 1, hetatm_set)

remove_heteroatoms_live(s, hetatm_set) ==
    [m \in 1..Len(s) |->
        [c \in 1..Len(s[m]) |->
            remove_heteroatoms_chain_live(s[m][c], 1, hetatm_set)]]

remove_heteroatoms(s, hetatm_set) ==
    [m \in 1..Len(s) |->
        [c \in 1..Len(s[m]) |->
            remove_heteroatoms_chain(s[m][c], s[m][c].child_list, 1, hetatm_set)]]

\* -------------------------------------------------- the residue partitioner
\* for model in structure: for chain in model: for residue in chain: append
RECURSIVE get_residues_from(_, _, _, _, _)
get_residues_from(s, m, c, r, acc) ==
    IF m > Len(s) THEN acc
    ELSE IF c > Len(s[m]) THEN get_residues_from(s, m + 1, 1, 1, acc)
    ELSE IF r > Len(s[m][c].child_list) THEN get_residues_from(s, m, c + 1, 1, acc)
    ELSE LET res == s[m][c].child_list[r]
         IN  get_residues_from(s, m, c, r + 1,
                Append(acc, [resname  |-> res.resname,
                             resnum   |-> res.id,
                             chain_id |-> s[m][c].id,
                             residue  |-> [full_id |-> <<m - 1, s[m][c].id, res.id>>,
                                           resname |-> res.resname]]))

get_residues(s) == get_residues_from(s, 1, 1, 1, <<>>)

\* an empty dict, dict[k] = v, dict.get(k, default)
EmptyDict == [k \in {} |-> <<>>]
DictPut(d, k, v) == [x \in (DOMAIN d) \cup {k} |-> IF x = k THEN v ELSE d[x]]
DictGet(d, k, default) == IF k \in DOMAIN d THEN d[k] ELSE default

RECURSIVE split_residues_from(_, _, _, _)
split_residues_from(rs, i, ch, het) ==
    IF i > Len(rs) THEN <<ch, het>>
    ELSE LET res      == rs[i]
             chain_id == res.chain_id
             resname  == res.resname
         IN  IF resname \in aal_prot
             THEN split_residues_from(rs, i + 1,
                     DictPut(ch, chain_id,
                             Append(DictGet(ch, chain_id, <<>>), res.residue)),
                     het)
             ELSE LET byname == DictGet(het, chain_id, EmptyDict)
                  IN  split_residues_from(rs, i + 1, ch,
                         DictPut(het, chain_id,
                                 DictPut(byname, resname,
                                         Append(DictGet(byname, resname, <<>>),
                                                res.residue))))

\* the same loop, re-creating the list on every residue instead of on first use
RECURSIVE split_residues_reset_from(_, _, _, _)
split_residues_reset_from(rs, i, ch, het) ==
    IF i > Len(rs) THEN <<ch, het>>
    ELSE LET res      == rs[i]
             chain_id == res.chain_id
             resname  == res.resname
         IN  IF resname \in aal_prot
             THEN split_residues_reset_from(rs, i + 1,
                     DictPut(ch, chain_id, <<res.residue>>), het)
             ELSE LET byname == DictGet(het, chain_id, EmptyDict)
                  IN  split_residues_reset_from(rs, i + 1, ch,
                         DictPut(het, chain_id,
                                 DictPut(byname, resname, <<res.residue>>)))

split_residues_reset(rs) == split_residues_reset_from(rs, 1, EmptyDict, EmptyDict)

split_residues(rs) == split_residues_from(rs, 1, EmptyDict, EmptyDict)

\* ------------------------------------------------------ the command line
\* os.path.isfile: "in.pdb" is the one file that exists
isfile(path) == path = "in.pdb"

\* validate_args without its first test
validate_args_noconflict(a) ==
    IF a.input = "" \/ a.output = "" THEN "ValueError"
    ELSE IF ~isfile(a.input) THEN "FileNotFoundError"
    ELSE "ok"

\* the exception validate_args raises, "ok" if it returns
validate_args(a) ==
    IF a.keep_protein_only /\ a.hetatm # {} THEN "ValueError"
    ELSE IF a.input = "" \/ a.output = "" THEN "ValueError"
    ELSE IF ~isfile(a.input) THEN "FileNotFoundError"
    ELSE "ok"

NoStructure == <<"none">>
NoFile == <<"nofile">>

\* where process_pdb goes after parsing, and after each pass (lines 106-114)
AfterParse(a) ==
    IF a.keep_protein_only THEN "p_water"
    ELSE IF a.remove_water THEN "s_water"
    ELSE IF a.hetatm # {} THEN "s_het"
    ELSE "save"

AfterSelectiveWater(a) == IF a.hetatm # {} THEN "s_het" ELSE "save"

ArgSpace ==
    [input : InputPaths, output : {"out.pdb", ""}, hetatm : SUBSET ResNames,
     keep_protein_only : BOOLEAN, remove_water : BOOLEAN]

\* paths a run is started with: a good pair, and one defect at a time
PathPairs ==
    {<<"in.pdb", "out.pdb">>, <<"absent.pdb", "out.pdb">>,
     <<"", "out.pdb">>, <<"in.pdb", "">>}

InitCommon ==
    /\ file \in Files
    /\ saved = NoFile
    /\ stdout = <<>>
    /\ exit_status = -1
    /\ exc = "none"
    /\ trace = <<>>
    /\ residues = <<>>
    /\ chains = EmptyDict
    /\ hetero_chains = EmptyDict

\* the script is started from the command line
Init ==
    /\ InitCommon
    /\ args \in {a \in ArgSpace : <<a.input, a.output>> \in PathPairs}
    /\ pc = "start"
    /\ structure = NoStructure

\* process_pdb is called directly, with any parameters
InitProcess ==
    /\ InitCommon
    /\ args \in {a \in ArgSpace : a.input # "" /\ a.output = "out.pdb"}
    /\ pc = "parse"
    /\ structure = NoStructure

\* a caller holds a parsed structure and applies passes to it
InitLib ==
    /\ InitCommon
    /\ args \in {a \in ArgSpace : /\ a.input = "in.pdb" /\ a.output = "out.pdb"
                                  /\ ~a.keep_protein_only /\ ~a.remove_water}
    /\ pc = "lib"
    /\ structure = get_structure(file)

\* a caller holds a parsed structure, applies passes and then partitions what is
\* left; its exclusion set names the standard residue, so that the passes
\* between them can empty every group
InitPartition ==
    /\ InitCommon
    /\ args = [input |-> "in.pdb", output |-> "out.pdb", hetatm |-> {"ALA"},
               keep_protein_only |-> FALSE, remove_water |-> FALSE]
    /\ pc = "lib"
    /\ structure = get_structure(file)

\* ---- __main__ and main
\* lines 151-154, 134-141: banner, then argparse
Start ==
    /\ pc = "start"
    /\ stdout' = Append(stdout, "banner")
    /\ pc' = "validate"
    /\ UNCHANGED <<file, args, structure, saved, exit_status, exc,
                   trace, residues, chains, hetero_chains>>

\* line 145
Validate ==
    /\ pc = "validate"
    /\ LET r == validate_args(args)
       IN  IF r = "ok"
           THEN pc' = "parse" /\ exc' = exc
           ELSE pc' = "raised" /\ exc' = r
    /\ UNCHANGED <<file, args, structure, saved, stdout, exit_status,
                   trace, residues, chains, hetero_chains>>

\* line 147, then the script ends
PrintSuccess ==
    /\ pc = "returned"
    /\ stdout' = Append(stdout, "success")
    /\ pc' = "exit"
    /\ exit_status' = 0
    /\ UNCHANGED <<file, args, structure, saved, exc,
                   trace, residues, chains, hetero_chains>>

\* lines 148-149: the handler prints and main returns normally
HandleException ==
    /\ pc = "raised"
    /\ stdout' = Append(stdout, "error")
    /\ pc' = "exit"
    /\ exit_status' = 0
    /\ exc' = "none"
    /\ UNCHANGED <<file, args, structure, saved,
                   trace, residues, chains, hetero_chains>>

\* ---- process_pdb
\* lines 102-103, the parser returns
ParseOK ==
    /\ pc = "parse"
    /\ isfile(args.input)
    /\ structure' = get_structure(file)
    /\ pc' = AfterParse(args)
    /\ UNCHANGED <<file, args, saved, stdout, exit_status, exc,
                   trace, residues, chains, hetero_chains>>

\* lines 102-103, the parser raises (no such file, unreadable or malformed input)
ParseFail ==
    /\ pc = "parse"
    /\ exc' = "ParseError"
    /\ pc' = "raised"
    /\ UNCHANGED <<file, args, structure, saved, stdout, exit_status,
                   trace, residues, chains, hetero_chains>>

\* line 107
ProteinWater ==
    /\ pc = "p_water"
    /\ structure' = remove_water(structure)
    /\ pc' = "p_protein"
    /\ UNCHANGED <<file, args, saved, stdout, exit_status, exc,
                   trace, residues, chains, hetero_chains>>

\* line 108
ProteinOnly ==
    /\ pc = "p_protein"
    /\ structure' = keep_only_protein(structure)
    /\ pc' = "p_het"
    /\ UNCHANGED <<file, args, saved, stdout, exit_status, exc,
                   trace, residues, chains, hetero_chains>>

\* line 109
ProteinHet ==
    /\ pc = "p_het"
    /\ structure' = remove_heteroatoms(structure, args.hetatm)
    /\ pc' = "save"
    /\ UNCHANGED <<file, args, saved, stdout, exit_status, exc,
                   trace, residues, chains, hetero_chains>>

\* lines 111-112
SelectiveWater ==
    /\ pc = "s_water"
    /\ structure' = remove_water(structure)
    /\ pc' = AfterSelectiveWater(args)
    /\ UNCHANGED <<file, args, saved, stdout, exit_status, exc,
                   trace, residues, chains, hetero_chains>>

\* lines 113-114
SelectiveHet ==
    /\ pc = "s_het"
    /\ structure' = remove_heteroatoms(structure, args.hetatm)
    /\ pc' = "save"
    /\ UNCHANGED <<file, args, saved, stdout, exit_status, exc,
                   trace, residues, chains, hetero_chains>>

\* lines 117-119, the write succeeds
SaveOK ==
    /\ pc = "save"
    /\ saved' = structure
    /\ pc' = "returned"
    /\ UNCHANGED <<file, args, structure, stdout, exit_status, exc,
                   trace, residues, chains, hetero_chains>>

\* lines 117-119, the write raises
SaveFail ==
    /\ pc = "save"
    /\ exc' = "SerializationError"
    /\ pc' = "raised"
    /\ UNCHANGED <<file, args, structure, saved, stdout, exit_status,
                   trace, residues, chains, hetero_chains>>

\* ---- a library caller
LibWater ==
    /\ pc = "lib" /\ Len(trace) < MaxPasses
    /\ structure' = remove_water(structure)
    /\ trace' = Append(trace, "W")
    /\ UNCHANGED <<file, args, pc, saved, stdout, exit_status, exc,
                   residues, chains, hetero_chains>>

LibProtein ==
    /\ pc = "lib" /\ Len(trace) < MaxPasses
    /\ structure' = keep_only_protein(structure)
    /\ trace' = Append(trace, "P")
    /\ UNCHANGED <<file, args, pc, saved, stdout, exit_status, exc,
                   residues, chains, hetero_chains>>

LibHet ==
    /\ pc = "lib" /\ Len(trace) < MaxPasses
    /\ structure' = remove_heteroatoms(structure, args.hetatm)
    /\ trace' = Append(trace, "H")
    /\ UNCHANGED <<file, args, pc, saved, stdout, exit_status, exc,
                   residues, chains, hetero_chains>>

GetResidues ==
    /\ pc = "lib"
    /\ residues' = get_residues(structure)
    /\ pc' = "got"
    /\ UNCHANGED <<file, args, structure, saved, stdout, exit_status, exc,
                   trace, chains, hetero_chains>>

SplitResidues ==
    /\ pc = "got"
    /\ LET r == split_residues(residues)
       IN  chains' = r[1] /\ hetero_chains' = r[2]
    /\ pc' = "split"
    /\ UNCHANGED <<file, args, structure, saved, stdout, exit_status, exc,
                   trace, residues>>

NextProcess ==
    \/ ParseOK \/ ParseFail
    \/ ProteinWater \/ ProteinOnly \/ ProteinHet
    \/ SelectiveWater \/ SelectiveHet
    \/ SaveOK \/ SaveFail

Next ==
    \/ Start \/ Validate \/ PrintSuccess \/ HandleException
    \/ ParseOK \/ ParseFail
    \/ ProteinWater \/ ProteinOnly \/ ProteinHet
    \/ SelectiveWater \/ SelectiveHet
    \/ SaveOK \/ SaveFail

NextLib == LibWater \/ LibProtein \/ LibHet

NextPartition ==
    LibWater \/ LibProtein \/ LibHet \/ GetResidues \/ SplitResidues

Spec == Init /\ [][Next]_vars
SpecProcess == InitProcess /\ [][NextProcess]_vars
SpecLib == InitLib /\ [][NextLib]_vars
SpecPartition == InitPartition /\ [][NextPartition]_vars

\* ======================================================================
\* Properties
\* ======================================================================
\* the structure the parser builds from the input file
orig == get_structure(file)

IsStructure(s) == s # NoStructure /\ s # NoFile

\* s with only the residues whose name is in keep / is not in drop
FilterKeep(s, keep) ==
    LET ok(r) == r.resname \in keep
    IN  [m \in 1..Len(s) |-> [c \in 1..Len(s[m]) |->
            [id |-> s[m][c].id, child_list |-> SelectSeq(s[m][c].child_list, ok)]]]

FilterDrop(s, drop) ==
    LET ok(r) == r.resname \notin drop
    IN  [m \in 1..Len(s) |-> [c \in 1..Len(s[m]) |->
            [id |-> s[m][c].id, child_list |-> SelectSeq(s[m][c].child_list, ok)]]]

\* the residue names present in s
NamesIn(s) ==
    {s[m][c].child_list[r].resname :
        <<m, c, r>> \in {t \in (1..Len(s)) \X (1..MaxRecords + 1) \X (1..MaxRecords + 1) :
                            /\ t[2] <= Len(s[t[1]])
                            /\ t[3] <= Len(s[t[1]][t[2]].child_list)}}

\* the residues of s, each with its place: <<model, chain id, residue>>
ResidueSet(s) ==
    {<<t[1], s[t[1]][t[2]].id, s[t[1]][t[2]].child_list[t[3]]>> :
        t \in {t \in (1..Len(s)) \X (1..MaxRecords + 1) \X (1..MaxRecords + 1) :
                            /\ t[2] <= Len(s[t[1]])
                            /\ t[3] <= Len(s[t[1]][t[2]].child_list)}}

\* a is b with some elements left out
RECURSIVE IsSubseq(_, _)
IsSubseq(a, b) ==
    IF a = <<>> THEN TRUE
    ELSE IF b = <<>> THEN FALSE
    ELSE IF Head(a) = Head(b) THEN IsSubseq(Tail(a), Tail(b))
    ELSE IsSubseq(a, Tail(b))

\* same models, and in every model the same chain ids in the same order
SameChains(s, t) ==
    /\ Len(s) = Len(t)
    /\ \A m \in 1..Len(s) :
          /\ Len(s[m]) = Len(t[m])
          /\ \A c \in 1..Len(s[m]) : s[m][c].id = t[m][c].id

\* ---------------------------------------------------------------- C1
\* C1: in protein-only mode, for either value of the water flag and any
\* exclusion set, every residue of the structure handed to the serializer
\* has a name of aal_prot, and none is named "HOH".
C1_ProteinOnlyOutput ==
    args.keep_protein_only =>
        /\ pc = "save" => (NamesIn(structure) \subseteq aal_prot
                           /\ "HOH" \notin NamesIn(structure))
        /\ pc = "returned" => (NamesIn(saved) \subseteq aal_prot
                               /\ "HOH" \notin NamesIn(saved))

C1_Witness ==
    /\ pc = "returned" /\ args.keep_protein_only /\ ~args.remove_water
    /\ {"ALA", "HOH", "PO4"} \subseteq NamesIn(orig)
    /\ NamesIn(saved) = {"ALA"}

\* ---------------------------------------------------------------- C2
\* C2: in selective mode the structure written is the input structure
\* without the residues named "HOH" when the water flag is set and without
\* the residues whose name is in hetatm_set; every other residue is kept.
SelectiveDrop == (IF args.remove_water THEN {"HOH"} ELSE {}) \cup args.hetatm

C2_SelectiveExact ==
    (pc = "returned" /\ ~args.keep_protein_only) =>
        saved = FilterDrop(orig, SelectiveDrop)

C2_Witness ==
    /\ pc = "returned" /\ ~args.keep_protein_only
    /\ args.remove_water /\ args.hetatm = {}
    /\ {"HOH", "PO4"} \subseteq NamesIn(orig)
    /\ "PO4" \in NamesIn(saved) /\ "HOH" \notin NamesIn(saved)

\* ---------------------------------------------------------------- C3
\* C3: a run started with --keep-protein-only and a non-empty --hetatm
\* never enters process_pdb: nothing is parsed, no pass runs and the
\* output file is not written, whether or not the input path exists.
C3_MutualExclusion ==
    (args.keep_protein_only /\ args.hetatm # {}) =>
        /\ pc \in {"start", "validate", "raised", "exit"}
        /\ structure = NoStructure
        /\ saved = NoFile

C3_Witness ==
    /\ pc = "exit" /\ args.keep_protein_only /\ args.hetatm = {"PO4"}
    /\ args.input = "in.pdb" /\ args.output = "out.pdb"
    /\ stdout = <<"banner", "error">>

\* ---------------------------------------------------------------- C4
\* C4: a run that failed (validation or processing) has printed an error
\* message and ends with a non-zero exit status; a run ends with the
\* success message and status zero only when process_pdb completed.
Printed(msg) == \E i \in 1..Len(stdout) : stdout[i] = msg

C4_ExitBehaviour ==
    pc = "exit" =>
        \/ Printed("error") /\ ~Printed("success") /\ exit_status # 0
        \/ Printed("success") /\ ~Printed("error") /\ exit_status = 0
              /\ saved # NoFile

\* ---------------------------------------------------------------- C5
\* C5: after any sequence of passes every chain's residue sequence is a
\* subsequence of that chain's input residue sequence, and the chains of
\* every model are the input chains in the input order.
C5_OrderPreserved ==
    /\ SameChains(structure, orig)
    /\ \A m \in 1..Len(structure) : \A c \in 1..Len(structure[m]) :
          IsSubseq(structure[m][c].child_list, orig[m][c].child_list)

C5_Witness ==
    /\ pc = "lib" /\ trace # <<>>
    /\ \E m \in 1..Len(structure) : \E c \in 1..Len(structure[m]) :
          /\ Len(orig[m][c].child_list) = 3
          /\ structure[m][c].child_list =
                <<orig[m][c].child_list[1], orig[m][c].child_list[3]>>

\* ---------------------------------------------------------------- C6
\* C6: no pass removes a chain or a model: after any sequence of passes
\* the models and the chain ids of each model are those of the input, in
\* order, also when a chain has lost all its residues.
C6_ChainsRetained ==
    /\ Len(structure) = Len(orig)
    /\ \A m \in 1..Len(orig) :
          [c \in 1..Len(structure[m]) |-> structure[m][c].id]
              = [c \in 1..Len(orig[m]) |-> orig[m][c].id]

C6_Witness ==
    /\ trace = <<"W">>
    /\ \E m \in 1..Len(structure) : \E c \in 1..Len(structure[m]) :
          /\ orig[m][c].child_list # <<>>
          /\ \A r \in 1..Len(orig[m][c].child_list) :
                orig[m][c].child_list[r].resname = "HOH"
          /\ structure[m][c].child_list = <<>>

\* ---------------------------------------------------------------- C7
\* C7: water removal followed by exclusion-set removal leaves the same
\* structure as exclusion-set removal followed by water removal, for every
\* exclusion set.
C7_Commute ==
    /\ trace = <<"W", "H">> =>
          structure = remove_water(remove_heteroatoms(orig, args.hetatm))
    /\ trace = <<"H", "W">> =>
          structure = remove_heteroatoms(remove_water(orig), args.hetatm)

C7_Witness ==
    /\ trace = <<"W", "H">>
    /\ {"HOH", "ALA"} \subseteq args.hetatm
    /\ {"HOH", "ALA", "PO4"} \subseteq NamesIn(orig)
    /\ NamesIn(structure) = {"PO4"}

\* ---------------------------------------------------------------- C8
\* C8: a pass applied right after the same pass changes nothing, and no
\* pass ever brings back a residue: the residues after a pass are among
\* the residues before it.
LastOf(q) == q[Len(q)]

C8_Idempotent ==
    [][ (pc = "lib" /\ trace' # trace) =>
            /\ ResidueSet(structure') \subseteq ResidueSet(structure)
            /\ (trace # <<>> /\ LastOf(trace') = LastOf(trace))
                  => structure' = structure ]_vars

C8_Witness ==
    /\ trace = <<"W", "W">>
    /\ \E m \in 1..Len(orig) : \E c \in 1..Len(orig[m]) :
          /\ Len(orig[m][c].child_list) >= 2
          /\ orig[m][c].child_list[1].resname = "HOH"
          /\ orig[m][c].child_list[2].resname = "HOH"

\* ---------------------------------------------------------------- C9
\* C9 as stated: in protein-only mode, whatever the exclusion set, the
\* structure written holds exactly the input residues named in aal_prot.
C9_Original ==
    (pc = "returned" /\ args.keep_protein_only) =>
        saved = FilterKeep(orig, aal_prot)

\* C9 amended: in protein-only mode the third pass leaves exactly the
\* input residues whose name is in aal_prot and not in hetatm_set; when
\* hetatm_set names no residue of aal_prot it removes nothing and the
\* survivors are exactly the input residues named in aal_prot.
C9_Amended ==
    [][ (pc = "p_het" /\ pc' = "save") =>
            /\ structure' = FilterKeep(orig, aal_prot \ args.hetatm)
            /\ (args.hetatm \cap aal_prot = {}) =>
                  (structure' = structure
                   /\ structure' = FilterKeep(orig, aal_prot)) ]_vars

C9_Witness ==
    /\ pc = "save" /\ args.keep_protein_only
    /\ args.hetatm = {"PO4"}
    /\ {"ALA", "PO4"} \subseteq NamesIn(orig)
    /\ NamesIn(structure) = {"ALA"}

\* ---------------------------------------------------------------- C10
\* the residues of the chains with id cid, model after model, as the
\* entities get_residues hands out
RECURSIVE ChainEntities(_, _, _)
ChainEntities(s, cid, m) ==
    IF m > Len(s) THEN <<>>
    ELSE LET idx == {c \in 1..Len(s[m]) : s[m][c].id = cid}
             here == IF idx = {} THEN <<>>
                     ELSE LET l == s[m][CHOOSE c \in idx : TRUE].child_list
                          IN  [r \in 1..Len(l) |->
                                  [full_id |-> <<m - 1, cid, l[r].id>>,
                                   resname |-> l[r].resname]]
         IN  here \o ChainEntities(s, cid, m + 1)

ExpectedProtein(s, cid) ==
    LET std(e) == e.resname \in aal_prot
    IN  SelectSeq(ChainEntities(s, cid, 1), std)

ExpectedHetero(s, cid, name) ==
    LET named(e) == e.resname = name
    IN  SelectSeq(ChainEntities(s, cid, 1), named)

\* how many places of the two mappings hold the entity e
Occurrences(e) ==
    Cardinality({p \in (DOMAIN chains) \X (1..MaxRecords + 1) :
                    p[2] <= Len(chains[p[1]]) /\ chains[p[1]][p[2]] = e})
    + Cardinality({p \in (DOMAIN hetero_chains) \X ResNames \X (1..MaxRecords + 1) :
                    /\ p[2] \in DOMAIN hetero_chains[p[1]]
                    /\ p[3] <= Len(hetero_chains[p[1]][p[2]])
                    /\ hetero_chains[p[1]][p[2]][p[3]] = e})

PartitionOK ==
    /\ DOMAIN chains = {cid \in ChainIds : ExpectedProtein(structure, cid) # <<>>}
    /\ \A cid \in DOMAIN chains : chains[cid] = ExpectedProtein(structure, cid)
    /\ DOMAIN hetero_chains =
          {cid \in ChainIds : \E n \in ResNames \ aal_prot :
                                 ExpectedHetero(structure, cid, n) # <<>>}
    /\ \A cid \in DOMAIN hetero_chains :
          /\ DOMAIN hetero_chains[cid] =
                {n \in ResNames \ aal_prot : ExpectedHetero(structure, cid, n) # <<>>}
          /\ \A n \in DOMAIN hetero_chains[cid] :
                hetero_chains[cid][n] = ExpectedHetero(structure, cid, n)
    /\ \A cid \in ChainIds :
          \A i \in 1..Len(ChainEntities(structure, cid, 1)) :
              Occurrences(ChainEntities(structure, cid, 1)[i]) = 1

\* C10: get_residues and split_residues leave the structure as it was, and
\* afterwards every residue is in exactly one group; protein_chains[c] is
\* the sequence of the standard residues of the chains with id c, model
\* after model in traversal order, and hetero_chains[c][n] the sequence of
\* the residues named n of those chains.
C10_Partition ==
    /\ [](pc = "split" => PartitionOK)
    /\ [][pc' \in {"got", "split"} => structure' = structure]_vars

C10_Witness ==
    /\ pc = "split"
    /\ Len(structure) = 2
    /\ "A" \in DOMAIN chains /\ Len(chains["A"]) = 2
    /\ chains["A"][1].full_id[1] = 0 /\ chains["A"][2].full_id[1] = 1

====
